---- MODULE Spec2Model ----
(***************************************************************************)
(* Model of mockllm's HTTP front end (src/mockllm/server.py): the two chat *)
(* endpoints, the two SSE stream adapters and count_tokens.  The response  *)
(* engine behind them (ResponseConfig, module config.py) is imported by    *)
(* server.py but its source is not at hand; it follows the written design. *)
(***************************************************************************)
EXTENDS Integers, Sequences, FiniteSets, TLC

\* ------------------------------------------------------------------ bounds
NumReqs == 2        \* request slots
MaxMsgs == 2        \* longest message list of a request
MaxLen == 4         \* longest text handed to count_tokens on its own

Reqs == 1..NumReqs

\* ------------------------------------------------------------ value domains
Roles == {"user", "assistant"}
Contents == {"hello", "bye", ""}
Endpoints == {"openai", "anthropic"}
KnownModels == {"gpt-4"}
Models == KnownModels \cup {"mock-model"}
Chars == {"a", " ", "\n"}

Msgs == [role : Roles, content : Contents]
MsgLists == UNION {[1..n -> Msgs] : n \in 0..MaxMsgs}
Texts == UNION {[1..n -> Chars] : n \in 0..MaxLen}

\* Optional[...] fields of the pydantic envelopes: None is dumped as null.
None == [some |-> FALSE, val |-> <<>>]
Some(x) == [some |-> TRUE, val |-> x]

\* The value `next(..., None)` yields when no message qualifies.
NoMsg == [role |-> "None", content |-> "None"]
NoExc == [type |-> "None", status_code |-> 0, detail |-> ""]

VARIABLES
    config,     \* the process-wide ResponseConfig (server.py:29)
    rs,         \* rs[r]: the request in slot r, its handler and its stream
    ct          \* one stand-alone call of count_tokens

vars == <<config, rs, ct>>

\* -------------------------------------------------- response engine (core)
\* An exception raised by the engine (an unexpected internal fault).
CoreFault == [type |-> "Exception", status_code |-> 0, detail |-> "core fault"]

Matches(pattern, prompt) == pattern = prompt

RECURSIVE ResolveFrom(_, _, _)
ResolveFrom(cfg, i, prompt) ==
    IF i > Len(cfg.rules) THEN cfg.default_response
    ELSE IF Matches(cfg.rules[i].pattern, prompt) THEN cfg.rules[i].response
    ELSE ResolveFrom(cfg, i + 1, prompt)

\* resolve(prompt): the response of the first matching rule, else the default.
resolve(cfg, prompt) == ResolveFrom(cfg, 1, prompt)

\* emit_stream partitions the text left to right, one character per chunk.
ChunkAt(text, i) == <<text[i]>>

Rules ==
    << [pattern |-> "hello", response |-> <<"h", "i">>],
       [pattern |-> "bye", response |-> <<>>],
       [pattern |-> "hello", response |-> <<"y", "o">>] >>
DefaultResponse == <<"o", " ", "k">>
Delays == {0, 1}
Configs ==
    { [rules |-> Rules, default_response |-> DefaultResponse,
       initial_delay |-> d1, inter_chunk_delay |-> d2] : d1 \in Delays, d2 \in Delays }

\* ------------------------------------------------------------ count_tokens
IsSpace(c) == c \in {" ", "\n", "\t"}

\* str.split(): the maximal runs of non-whitespace characters, left to right.
\* `cur` is the word being read.
RECURSIVE SplitFrom(_, _, _)
SplitFrom(text, i, cur) ==
    IF i > Len(text) THEN (IF cur = <<>> THEN <<>> ELSE <<cur>>)
    ELSE IF IsSpace(text[i])
         THEN (IF cur = <<>> THEN <<>> ELSE <<cur>>) \o SplitFrom(text, i + 1, <<>>)
         ELSE SplitFrom(text, i + 1, Append(cur, text[i]))

\* (a slip) str.split(" ") keeps the empty strings between adjacent separators.
RECURSIVE SplitOnBlankFrom(_, _, _)
SplitOnBlankFrom(text, i, cur) ==
    IF i > Len(text) THEN <<cur>>
    ELSE IF text[i] = " "
         THEN <<cur>> \o SplitOnBlankFrom(text, i + 1, <<>>)
         ELSE SplitOnBlankFrom(text, i + 1, Append(cur, text[i]))

split_blank(text) == SplitOnBlankFrom(text, 1, <<>>)

split(text) == SplitFrom(text, 1, <<>>)

\* What tiktoken can do for (text, model): raise (at the lookup of a model it
\* does not know, or while encoding), or return a token list, of which only
\* the length is used.
TokenizerOutcomes(text, model) ==
    {[raised |-> TRUE, n |-> 0]} \cup
    (IF model \in KnownModels
     THEN {[raised |-> FALSE, n |-> k] :
              k \in (IF Len(text) = 0 THEN {0} ELSE 1..Len(text))}
     ELSE {})

\* count_tokens(text, model) when the tokenizer behaves as `out`.
count_tokens(text, out) ==
    IF out.raised THEN Len(split(text)) ELSE out.n

\* str(request.messages): the repr of the message list, as a text whose
\* characters are atoms; only " " among them is whitespace.
RECURSIVE ReprFrom(_, _)
ReprFrom(msgs, i) ==
    IF i > Len(msgs) THEN <<>>
    ELSE (IF i > 1 THEN <<",", " ">> ELSE <<>>)
         \o <<"Message(role=", msgs[i].role, ",", " ", "content=", msgs[i].content, ")">>
         \o ReprFrom(msgs, i + 1)

StrMessages(msgs) == <<"[">> \o ReprFrom(msgs, 1) \o <<"]">>

\* --------------------------------------------------------- SSE envelopes
\* f"data: {json}\n\n": the payload between the prefix and the blank line.
SSE(json) == [prefix |-> "data: ", data |-> json, suffix |-> "\n\n"]

\* OpenAIStreamResponse(model, choices=[OpenAIStreamChoice(delta, finish_reason)])
OpenAIStreamResponse(model, role, content, finish_reason) ==
    [model |-> model,
     choices |-> << [delta |-> [role |-> role, content |-> content],
                     finish_reason |-> finish_reason] >>]

first_chunk(model) == SSE(OpenAIStreamResponse(model, Some("assistant"), None, None))

\* (a slip: the content envelope repeats the role announcement)
chunk_response_no_content(model, chunk) ==
    SSE(OpenAIStreamResponse(model, Some("assistant"), None, None))

chunk_response(model, chunk) ==
    SSE(OpenAIStreamResponse(model, None, Some(chunk), None))

\* (a slip: the terminal envelope carries no finish_reason)
final_chunk_no_reason(model) == SSE(OpenAIStreamResponse(model, None, None, None))

final_chunk(model) == SSE(OpenAIStreamResponse(model, None, None, Some("stop")))

\* AnthropicStreamResponse(delta=AnthropicStreamDelta(delta={"text": chunk}))
\* (a slip: the text sits directly under delta)
stream_response_flat(chunk) == SSE([delta |-> [text |-> chunk]])

stream_response(chunk) == SSE([delta |-> [delta |-> [text |-> chunk]]])

DONE == [prefix |-> "data: ", data |-> [literal |-> "[DONE]"], suffix |-> "\n\n"]

\* ------------------------------------------------------ request selection
\* next((msg for msg in reversed(messages) if msg.role == "user"), None)
RECURSIVE ScanReversed(_, _)
ScanReversed(msgs, i) ==
    IF i = 0 THEN NoMsg
    ELSE IF msgs[i].role = "user" THEN msgs[i]
    ELSE ScanReversed(msgs, i - 1)

\* (a slip: the scan is not reversed)
RECURSIVE ScanForward(_, _)
ScanForward(msgs, i) ==
    IF i > Len(msgs) THEN NoMsg
    ELSE IF msgs[i].role = "user" THEN msgs[i]
    ELSE ScanForward(msgs, i + 1)

first_user_message(msgs) == ScanForward(msgs, 1)

last_message(msgs) == ScanReversed(msgs, Len(msgs))

\* ------------------------------------------------------- request records
NoBody == [empty |-> TRUE]

IdleReq ==
    [pc |-> "idle", endpoint |-> "none", messages |-> <<>>, stream |-> FALSE,
     model |-> "none",
     status |-> 0, detail |-> "", cause |-> NoExc, body |-> NoBody,
     content |-> "", text |-> <<>>, yielded |-> 0,
     events |-> <<>>, chunks |-> <<>>, coreCalls |-> <<>>, delays |-> <<>>,
     tokCalls |-> 0, log |-> <<>>, disconnected |-> FALSE, faulted |-> FALSE]

InitialDelay(cfg) == [kind |-> "initial", duration |-> cfg.initial_delay]
InterChunkDelay(cfg) == [kind |-> "inter_chunk", duration |-> cfg.inter_chunk_delay]

\* HTTPException(status_code=400, detail="No user message found in request")
NoUserMessage ==
    [type |-> "HTTPException", status_code |-> 400,
     detail |-> "No user message found in request"]

\* logger.info(..., extra={model, message_count, stream})
LogReceived(q) ==
    [q EXCEPT !.log = Append(@, [level |-> "info", model |-> q.model,
                                 message_count |-> Len(q.messages),
                                 stream |-> q.stream])]

\* except Exception as e: logger.error(...); raise HTTPException(500, ...) from e
except_Exception(q, e) ==
    [q EXCEPT !.log = Append(@, [level |-> "error", model |-> "",
                                 message_count |-> 0, stream |-> FALSE]),
              !.pc = "responded",
              !.status = 500,
              !.detail = "Internal server error: ",
              !.cause = e]

\* A request arrives at one of the two routes and is parsed.
Arrive(r, lists) ==
    /\ rs[r].pc = "idle"
    /\ \E e \in Endpoints, ms \in lists, st \in BOOLEAN, m \in Models :
          rs' = [rs EXCEPT ![r] = [IdleReq EXCEPT !.pc = "received",
                                                   !.endpoint = e,
                                                   !.messages = ms,
                                                   !.stream = st,
                                                   !.model = m]]
    /\ UNCHANGED <<config, ct>>

\* await response_config.get_response_with_lag(prompt): the engine is entered
\* and suspends for the initial delay.
get_response_with_lag(q, cfg, prompt) ==
    [q EXCEPT !.coreCalls = Append(@, [fn |-> "get_response_with_lag",
                                       prompt |-> prompt]),
              !.text = resolve(cfg, prompt),
              !.delays = Append(@, InitialDelay(cfg)),
              !.pc = "once_delay"]

\* (a slip: the stream flag is tested before last_message)
HandlerBranch_stream_first(last, stream) ==
    IF stream THEN "stream"
    ELSE IF last = NoMsg THEN "reject"
    ELSE "once"

\* (a slip: `if not last_message.content.strip()` is tested as well)
HandlerBranch_reject_blank(last, stream) ==
    IF last = NoMsg \/ last.content \in {"", " "} THEN "reject"
    ELSE IF stream THEN "stream"
    ELSE "once"

\* The branch the handler takes once last_message is known.
HandlerBranch(last, stream) ==
    IF last = NoMsg THEN "reject"
    ELSE IF stream THEN "stream"
    ELSE "once"

\* The handler from its entry to its first suspension, return or raise.
chat_completion(r) ==
    /\ rs[r].pc = "received"
    /\ LET q == LogReceived(rs[r])
           last == last_message(q.messages)
           branch == HandlerBranch(last, q.stream)
       IN  \/ /\ branch = "reject"
              /\ rs' = [rs EXCEPT ![r] = except_Exception(q, NoUserMessage)]
           \/ /\ branch = "stream"
              /\ rs' = [rs EXCEPT ![r] = [q EXCEPT !.pc = "gen_created",
                                                  !.status = 200,
                                                  !.content = last.content]]
           \/ /\ branch = "once"
              /\ rs' = [rs EXCEPT ![r] =
                           get_response_with_lag(q, config, last.content)]
           \/ /\ branch = "once"
              /\ rs' = [rs EXCEPT ![r] =
                           except_Exception(
                               [q EXCEPT !.coreCalls =
                                             Append(@, [fn |-> "get_response_with_lag",
                                                        prompt |-> last.content]),
                                         !.faulted = TRUE],
                               CoreFault)]
    /\ UNCHANGED <<config, ct>>

\* (a slip: the handler runs under a lock that a request suspended in a delay
\* keeps, as a blocking sleep in place of the awaited one would)
openai_chat_completion_blocked(r) ==
    /\ rs[r].endpoint = "openai"
    /\ \A q \in Reqs \ {r} : rs[q].pc \notin {"once_delay", "initial_delay", "chunk_delay"}
    /\ chat_completion(r)

openai_chat_completion(r) ==
    /\ rs[r].endpoint = "openai"
    /\ chat_completion(r)

anthropic_chat_completion(r) ==
    /\ rs[r].endpoint = "anthropic"
    /\ chat_completion(r)

\* OpenAIChatResponse(...) / AnthropicChatResponse(...)
ChatResponse(q, prompt_tokens, completion_tokens) ==
    IF q.endpoint = "openai"
    THEN [model |-> q.model,
          choices |-> << [index |-> 0,
                          message |-> [role |-> "assistant", content |-> q.text],
                          finish_reason |-> "stop"] >>,
          usage |-> [prompt_tokens |-> prompt_tokens,
                     completion_tokens |-> completion_tokens,
                     total_tokens |-> prompt_tokens + completion_tokens]]
    ELSE [model |-> q.model,
          content |-> << [type |-> "text", text |-> q.text] >>,
          usage |-> [input_tokens |-> prompt_tokens,
                     output_tokens |-> completion_tokens,
                     total_tokens |-> prompt_tokens + completion_tokens]]

\* (a slip: the default response is taken for "not found" and raised)
chat_completion_return_miss_is_error(r) ==
    /\ rs[r].pc = "once_delay"
    /\ LET q == rs[r] IN
       IF q.text = config.default_response
       THEN rs' = [rs EXCEPT ![r] =
                      except_Exception(q, [type |-> "HTTPException", status_code |-> 404,
                                           detail |-> "No response found"])]
       ELSE \E o1 \in TokenizerOutcomes(StrMessages(q.messages), q.model),
               o2 \in TokenizerOutcomes(q.text, q.model) :
               rs' = [rs EXCEPT ![r] =
                         [q EXCEPT !.pc = "responded",
                                   !.status = 200,
                                   !.tokCalls = @ + 2,
                                   !.body = ChatResponse(
                                                q,
                                                count_tokens(StrMessages(q.messages), o1),
                                                count_tokens(q.text, o2))]]
    /\ UNCHANGED <<config, ct>>

\* The initial delay of a non-streaming request has elapsed: the engine
\* returns the text, the tokens are counted and the response is returned.
chat_completion_return(r) ==
    /\ rs[r].pc = "once_delay"
    /\ LET q == rs[r] IN
       \E o1 \in TokenizerOutcomes(StrMessages(q.messages), q.model),
          o2 \in TokenizerOutcomes(q.text, q.model) :
          rs' = [rs EXCEPT ![r] =
                    [q EXCEPT !.pc = "responded",
                              !.status = 200,
                              !.tokCalls = @ + 2,
                              !.body = ChatResponse(
                                           q,
                                           count_tokens(StrMessages(q.messages), o1),
                                           count_tokens(q.text, o2))]]
    /\ UNCHANGED <<config, ct>>

\* (a slip: the handler catches the fault of the engine and asks it again)
chat_completion_fault_retry(r) ==
    /\ rs[r].pc = "once_delay"
    /\ rs' = [rs EXCEPT ![r] =
                 IF Len(rs[r].coreCalls) < 2
                 THEN get_response_with_lag([rs[r] EXCEPT !.faulted = TRUE], config,
                                            rs[r].coreCalls[1].prompt)
                 ELSE except_Exception([rs[r] EXCEPT !.faulted = TRUE], CoreFault)]
    /\ UNCHANGED <<config, ct>>

\* The engine raises while the non-streaming handler awaits it.
chat_completion_fault(r) ==
    /\ rs[r].pc = "once_delay"
    /\ rs' = [rs EXCEPT ![r] = except_Exception([rs[r] EXCEPT !.faulted = TRUE],
                                                CoreFault)]
    /\ UNCHANGED <<config, ct>>

\* ------------------------------------------------------- stream adapters
\* A generator position at which the generator can still be resumed.
LivePcs ==
    {"gen_created", "role_yielded", "initial_delay", "chunk_yielded",
     "chunk_delay", "stop_yielded", "done_yielded"}

\* Positions at which resuming the generator runs engine code.
InEnginePcs == {"initial_delay", "chunk_yielded", "chunk_delay"}

Yield(q, ev) == [q EXCEPT !.events = Append(@, ev)]

\* (a slip: the OpenAI adapter enters its loop without announcing the role)
AtLoopEntry_before_role(q) ==
    q.pc = "gen_created"

\* The generator is about to enter `async for chunk in ...` (line 51 / 71).
AtLoopEntry(q) ==
    \/ q.endpoint = "openai" /\ q.pc = "role_yielded"
    \/ q.endpoint = "anthropic" /\ q.pc = "gen_created"

\* get_streaming_response_with_lag(content) is entered: the text is resolved
\* and the engine suspends for the initial delay.
get_streaming_response_with_lag(q, cfg) ==
    [q EXCEPT !.coreCalls = Append(@, [fn |-> "get_streaming_response_with_lag",
                                       prompt |-> q.content]),
              !.text = resolve(cfg, q.content),
              !.delays = Append(@, InitialDelay(cfg)),
              !.pc = "initial_delay"]

\* (a slip: `if chunk.strip():` guards the yield, so blank chunks are dropped)
LoopBody_skip_blank(q, chunk) ==
    IF \A i \in 1..Len(chunk) : IsSpace(chunk[i])
    THEN [q EXCEPT !.chunks = Append(@, chunk),
                   !.yielded = @ + 1,
                   !.pc = "chunk_yielded"]
    ELSE [Yield(q, IF q.endpoint = "openai"
                   THEN chunk_response(q.model, chunk)
                   ELSE stream_response(chunk))
             EXCEPT !.chunks = Append(@, chunk),
                    !.yielded = @ + 1,
                    !.pc = "chunk_yielded"]

\* The loop body: the chunk the engine yields is wrapped and yielded.
LoopBody(q, chunk) ==
    [Yield(q, IF q.endpoint = "openai"
              THEN chunk_response(q.model, chunk)
              ELSE stream_response(chunk))
        EXCEPT !.chunks = Append(@, chunk),
               !.yielded = @ + 1,
               !.pc = "chunk_yielded"]

\* (a slip: the stop envelope is only sent when a chunk was sent)
AfterLoop_no_stop_when_empty(q) ==
    IF q.endpoint = "openai" /\ q.yielded > 0
    THEN [Yield(q, final_chunk(q.model)) EXCEPT !.pc = "stop_yielded"]
    ELSE [Yield(q, DONE) EXCEPT !.pc = "done_yielded"]

\* The engine signals completion: the code after the loop runs to its yield.
AfterLoop(q) ==
    IF q.endpoint = "openai"
    THEN [Yield(q, final_chunk(q.model)) EXCEPT !.pc = "stop_yielded"]
    ELSE [Yield(q, DONE) EXCEPT !.pc = "done_yielded"]

\* The engine is resumed with the delay elapsed or the last chunk consumed:
\* it yields the next chunk if one is left and completes otherwise.
NextChunkOrEnd(q) ==
    IF q.yielded < Len(q.text)
    THEN LoopBody(q, ChunkAt(q.text, q.yielded + 1))
    ELSE AfterLoop(q)

\* openai_stream_response, first resumption: the role announcement.
openai_stream_first(r) ==
    /\ rs[r].pc = "gen_created"
    /\ rs[r].endpoint = "openai"
    /\ rs' = [rs EXCEPT ![r] =
                 [Yield(rs[r], first_chunk(rs[r].model)) EXCEPT !.pc = "role_yielded"]]
    /\ UNCHANGED <<config, ct>>

\* (a slip: the adapter switches the shared initial delay off once it streams)
stream_enter_loop_writes_config(r) ==
    /\ AtLoopEntry(rs[r])
    /\ rs' = [rs EXCEPT ![r] = get_streaming_response_with_lag(rs[r], config)]
    /\ config' = [config EXCEPT !.initial_delay = 0]
    /\ UNCHANGED ct

\* Either adapter reaches its loop and enters the engine.
stream_enter_loop(r) ==
    /\ AtLoopEntry(rs[r])
    /\ rs' = [rs EXCEPT ![r] = get_streaming_response_with_lag(rs[r], config)]
    /\ UNCHANGED <<config, ct>>

\* The initial delay has elapsed.
initial_delay_elapsed(r) ==
    /\ rs[r].pc = "initial_delay"
    /\ rs' = [rs EXCEPT ![r] = NextChunkOrEnd(rs[r])]
    /\ UNCHANGED <<config, ct>>

\* (a slip: the engine sleeps after every chunk, the last one included)
stream_after_chunk_always_delay(r) ==
    /\ rs[r].pc = "chunk_yielded"
    /\ rs' = [rs EXCEPT ![r] =
                 [rs[r] EXCEPT !.delays = Append(@, InterChunkDelay(config)),
                               !.pc = "chunk_delay"]]
    /\ UNCHANGED <<config, ct>>

\* The consumer asks for the item after a chunk: the engine suspends for the
\* inter-chunk delay if a chunk is left, and completes otherwise.
stream_after_chunk(r) ==
    /\ rs[r].pc = "chunk_yielded"
    /\ rs' = [rs EXCEPT ![r] =
                 IF rs[r].yielded < Len(rs[r].text)
                 THEN [rs[r] EXCEPT !.delays = Append(@, InterChunkDelay(config)),
                                    !.pc = "chunk_delay"]
                 ELSE AfterLoop(rs[r])]
    /\ UNCHANGED <<config, ct>>

\* An inter-chunk delay has elapsed.
chunk_delay_elapsed(r) ==
    /\ rs[r].pc = "chunk_delay"
    /\ rs' = [rs EXCEPT ![r] = NextChunkOrEnd(rs[r])]
    /\ UNCHANGED <<config, ct>>

\* openai_stream_response, after the stop envelope: the sentinel (line 64).
openai_stream_done(r) ==
    /\ rs[r].pc = "stop_yielded"
    /\ rs' = [rs EXCEPT ![r] = [Yield(rs[r], DONE) EXCEPT !.pc = "done_yielded"]]
    /\ UNCHANGED <<config, ct>>

\* (a slip: the generator idles after the sentinel instead of returning)
stream_finish_hangs(r) ==
    /\ rs[r].pc = "done_yielded"
    /\ UNCHANGED vars

\* The generator is resumed after the sentinel and returns.
stream_finish(r) ==
    /\ rs[r].pc = "done_yielded"
    /\ rs' = [rs EXCEPT ![r].pc = "finished"]
    /\ UNCHANGED <<config, ct>>

\* The engine raises inside the generator: at its entry or when resumed.  The
\* exception leaves the generator, which no handler code encloses.
stream_fault(r) ==
    /\ \/ /\ AtLoopEntry(rs[r])
          /\ rs' = [rs EXCEPT ![r] =
                       [rs[r] EXCEPT !.coreCalls =
                                         Append(@, [fn |-> "get_streaming_response_with_lag",
                                                    prompt |-> rs[r].content]),
                                     !.faulted = TRUE,
                                     !.pc = "aborted"]]
       \/ /\ rs[r].pc \in InEnginePcs
          /\ rs' = [rs EXCEPT ![r] = [rs[r] EXCEPT !.faulted = TRUE, !.pc = "aborted"]]
    /\ UNCHANGED <<config, ct>>

\* Whether a disconnect of the consumer ends the generator at position pc.
Cancellable(pc) == pc \in LivePcs

\* (a slip: the generator swallows the close and stays resumable)
Disconnect_swallowed(r) ==
    /\ Cancellable(rs[r].pc)
    /\ ~rs[r].disconnected
    /\ rs' = [rs EXCEPT ![r] = [rs[r] EXCEPT !.disconnected = TRUE]]
    /\ UNCHANGED <<config, ct>>

\* The consumer disconnects: the generator is closed where it is suspended.
Disconnect(r) ==
    /\ Cancellable(rs[r].pc)
    /\ rs' = [rs EXCEPT ![r] = [rs[r] EXCEPT !.disconnected = TRUE, !.pc = "closed"]]
    /\ UNCHANGED <<config, ct>>

\* The request is over and its objects are discarded; the slot is free again.
Reset(r) ==
    /\ rs[r].pc \in {"responded", "finished", "closed", "aborted"}
    /\ rs' = [rs EXCEPT ![r] = IdleReq]
    /\ UNCHANGED <<config, ct>>

\* ------------------------------------------------- stand-alone count_tokens
CtIdle == [pc |-> "idle", text |-> <<>>, model |-> "none", result |-> 0, raised |-> FALSE]

\* count_tokens(text, model) is called and returns.
count_tokens_call(out) ==
    /\ ct.pc = "called"
    /\ out \in TokenizerOutcomes(ct.text, ct.model)
    /\ ct' = [ct EXCEPT !.pc = "returned",
                        !.result = count_tokens(ct.text, out),
                        !.raised = out.raised]
    /\ UNCHANGED <<config, rs>>

count_tokens_encoded == \E out \in {o \in TokenizerOutcomes(ct.text, ct.model) : ~o.raised} :
    count_tokens_call(out)

count_tokens_fallback == \E out \in {o \in TokenizerOutcomes(ct.text, ct.model) : o.raised} :
    count_tokens_call(out)

\* -------------------------------------------------------- specifications
Init ==
    /\ config \in Configs
    /\ rs = [r \in Reqs |-> IdleReq]
    /\ ct = CtIdle

\* One request is in flight at a time.
ArriveAlone(r) ==
    /\ \A q \in Reqs \ {r} : rs[q].pc = "idle"
    /\ Arrive(r, MsgLists)

\* Several requests are in flight at once, on the first two slots, each with
\* at most one message and a model tiktoken does not know (which makes the
\* token counts of the responses deterministic).
ConcReqs == {r \in Reqs : r <= 2}
ConcLists == {ms \in MsgLists : Len(ms) <= 1}

ArriveConcurrently(r) ==
    /\ r \in ConcReqs
    /\ Arrive(r, ConcLists)
    /\ rs'[r].model \notin KnownModels

Next ==
    \E r \in Reqs :
        \/ ArriveAlone(r)
        \/ openai_chat_completion(r)
        \/ anthropic_chat_completion(r)
        \/ chat_completion_return(r)
        \/ chat_completion_fault(r)
        \/ openai_stream_first(r)
        \/ stream_enter_loop(r)
        \/ initial_delay_elapsed(r)
        \/ stream_after_chunk(r)
        \/ chunk_delay_elapsed(r)
        \/ openai_stream_done(r)
        \/ stream_finish(r)
        \/ stream_fault(r)
        \/ Disconnect(r)
        \/ Reset(r)

Spec == Init /\ [][Next]_vars

\* The steps of request r that the event loop takes whenever they are
\* possible: the handler runs, an elapsed delay resumes the coroutine, and a
\* consumer that is still connected asks for the next item.
Step(r) ==
    \/ openai_chat_completion(r)
    \/ anthropic_chat_completion(r)
    \/ chat_completion_return(r)
    \/ openai_stream_first(r)
    \/ stream_enter_loop(r)
    \/ initial_delay_elapsed(r)
    \/ stream_after_chunk(r)
    \/ chunk_delay_elapsed(r)
    \/ openai_stream_done(r)
    \/ stream_finish(r)

Fairness == \A r \in Reqs : WF_vars(Step(r))

\* Requests whose messages all have empty or whitespace-only content, one in
\* flight at a time.
BlankContents == {"", " "}
BlankLists == UNION {[1..n -> [role : Roles, content : BlankContents]] : n \in 0..MaxMsgs}

ArriveBlank(r) ==
    /\ \A q \in Reqs \ {r} : rs[q].pc = "idle"
    /\ Arrive(r, BlankLists)

NextBlank ==
    \E r \in Reqs :
        \/ ArriveBlank(r)
        \/ openai_chat_completion(r)
        \/ anthropic_chat_completion(r)
        \/ chat_completion_return(r)
        \/ chat_completion_fault(r)
        \/ openai_stream_first(r)
        \/ stream_enter_loop(r)
        \/ initial_delay_elapsed(r)
        \/ stream_after_chunk(r)
        \/ chunk_delay_elapsed(r)
        \/ openai_stream_done(r)
        \/ stream_finish(r)
        \/ stream_fault(r)
        \/ Disconnect(r)
        \/ Reset(r)

SpecBlank == Init /\ [][NextBlank]_vars

\* count_tokens on its own, over every text and model of the bounds.
InitCount ==
    /\ config \in Configs
    /\ rs = [r \in Reqs |-> IdleReq]
    /\ ct \in {[CtIdle EXCEPT !.pc = "called", !.text = t, !.model = m] :
                  t \in Texts, m \in Models}

NextCount == count_tokens_encoded \/ count_tokens_fallback

SpecCount == InitCount /\ [][NextCount]_vars

InitConc ==
    /\ config \in Configs
    /\ rs = [r \in Reqs |-> IdleReq]
    /\ ct = CtIdle

NextConc ==
    \E r \in Reqs :
        \/ ArriveConcurrently(r)
        \/ openai_chat_completion(r)
        \/ anthropic_chat_completion(r)
        \/ chat_completion_return(r)
        \/ chat_completion_fault(r)
        \/ openai_stream_first(r)
        \/ stream_enter_loop(r)
        \/ initial_delay_elapsed(r)
        \/ stream_after_chunk(r)
        \/ chunk_delay_elapsed(r)
        \/ openai_stream_done(r)
        \/ stream_finish(r)
        \/ stream_fault(r)
        \/ Disconnect(r)

SpecConc == InitConc /\ [][NextConc]_vars

SpecConcFair == SpecConc /\ Fairness

\* ---------------------------------------------------------------- claims
\* Vocabulary of the claims, stated without the operators of the model.
HasUser(msgs) == \E i \in 1..Len(msgs) : msgs[i].role = "user"

GreatestUserIndex(msgs) ==
    CHOOSE i \in 1..Len(msgs) :
        /\ msgs[i].role = "user"
        /\ \A j \in (i + 1)..Len(msgs) : msgs[j].role # "user"

Arrived(r) == rs[r].pc # "idle"
Rejected(r) == rs[r].pc = "responded" /\ rs[r].status >= 400

IsOpenAIEnvelope(ev) == "choices" \in DOMAIN ev.data
IsRoleEnvelope(ev) ==
    /\ IsOpenAIEnvelope(ev)
    /\ ev.data.choices[1].delta.role = Some("assistant")
    /\ ev.data.choices[1].delta.content = None
    /\ ev.data.choices[1].finish_reason = None
IsStopEnvelope(ev) ==
    /\ IsOpenAIEnvelope(ev)
    /\ ev.data.choices[1].finish_reason = Some("stop")
    /\ ev.data.choices[1].delta.content = None
IsOpenAIContent(ev) ==
    /\ IsOpenAIEnvelope(ev)
    /\ ev.data.choices[1].delta.content.some
    /\ ev.data.choices[1].finish_reason = None
IsAnthropicContent(ev) ==
    /\ "delta" \in DOMAIN ev.data
    /\ "delta" \in DOMAIN ev.data.delta
    /\ "text" \in DOMAIN ev.data.delta.delta
IsContent(ev) == IsOpenAIContent(ev) \/ IsAnthropicContent(ev)
IsDone(ev) == ev.prefix = "data: " /\ ev.data = [literal |-> "[DONE]"] /\ ev.suffix = "\n\n"

ContentOf(ev) ==
    IF IsOpenAIContent(ev) THEN ev.data.choices[1].delta.content.val
    ELSE ev.data.delta.delta.text

RECURSIVE Concat(_)
Concat(seqs) == IF seqs = <<>> THEN <<>> ELSE Head(seqs) \o Concat(Tail(seqs))

\* The contents carried by the content envelopes of a stream, in emission order.
StreamedContents(evs) ==
    LET cs == SelectSeq(evs, IsContent) IN [i \in 1..Len(cs) |-> ContentOf(cs[i])]

\* The positions at which a whitespace-separated word of the text starts.
WordStarts(text) ==
    {i \in 1..Len(text) : ~IsSpace(text[i]) /\ (i = 1 \/ IsSpace(text[i - 1]))}

\* The content of a non-streaming response body.
BodyContent(q) ==
    IF q.endpoint = "openai" THEN q.body.choices[1].message.content
    ELSE q.body.content[1].text

\* C1: on both endpoints a request without a user-role message is answered
\* with status 400 and the detail "No user message found in request", never
\* with a 5xx status.
C1_NoUserIs400 ==
    \A r \in Reqs :
        (rs[r].pc = "responded" /\ ~HasUser(rs[r].messages)) =>
            /\ rs[r].status = 400
            /\ rs[r].detail = "No user message found in request"

\* C2: while a request has no user-role message, whatever its endpoint and
\* stream flag, the engine has not been called in either mode, no stream
\* generator exists, no delay has been entered and count_tokens has not been
\* called.
C2_NoUserNoCore ==
    \A r \in Reqs :
        (Arrived(r) /\ ~HasUser(rs[r].messages)) =>
            /\ rs[r].coreCalls = <<>>
            /\ rs[r].pc \in {"received", "responded"}
            /\ rs[r].events = <<>>
            /\ rs[r].chunks = <<>>
            /\ rs[r].delays = <<>>
            /\ rs[r].tokCalls = 0

C2_Witness ==
    \E r \in Reqs :
        /\ Rejected(r)
        /\ rs[r].stream
        /\ rs[r].endpoint = "anthropic"
        /\ Len(rs[r].messages) = MaxMsgs
        /\ ~HasUser(rs[r].messages)

\* C3: every prompt handed to the engine, and every content handed to a
\* stream adapter, is the content of the user-role message of greatest index.
C3_LastUserPrompt ==
    \A r \in Reqs :
        LET q == rs[r] IN
        /\ \A i \in 1..Len(q.coreCalls) :
              /\ HasUser(q.messages)
              /\ q.coreCalls[i].prompt = q.messages[GreatestUserIndex(q.messages)].content
        /\ (q.pc \in LivePcs \cup {"finished", "closed", "aborted"}) =>
              /\ HasUser(q.messages)
              /\ q.content = q.messages[GreatestUserIndex(q.messages)].content

C3_Witness ==
    \E r \in Reqs :
        LET q == rs[r] IN
        /\ Len(q.messages) = 2
        /\ q.messages[1] = [role |-> "user", content |-> "bye"]
        /\ q.messages[2] = [role |-> "user", content |-> "hello"]
        /\ q.coreCalls # <<>>
        /\ q.coreCalls[1].prompt = "hello"

\* C4: a fully consumed OpenAI-style stream of n chunks consists of n+3
\* events: the role announcement, one content envelope per chunk in chunk
\* order, the stop envelope, and the [DONE] sentinel last.
C4_OpenAIStreamShape ==
    \A r \in Reqs :
        LET q == rs[r]
            n == Len(q.chunks)
        IN  (q.pc = "finished" /\ q.endpoint = "openai") =>
                /\ Len(q.events) = n + 3
                /\ IsRoleEnvelope(q.events[1])
                /\ \A i \in 1..n :
                      /\ IsOpenAIContent(q.events[i + 1])
                      /\ ContentOf(q.events[i + 1]) = q.chunks[i]
                /\ IsStopEnvelope(q.events[n + 2])
                /\ IsDone(q.events[n + 3])
                /\ \A i \in 1..(n + 2) : ~IsDone(q.events[i])

C4_Witness ==
    \E r \in Reqs :
        /\ rs[r].pc = "finished"
        /\ rs[r].endpoint = "openai"
        /\ Len(rs[r].chunks) = 3
        /\ Len(rs[r].events) = 6

\* C5: a fully consumed Anthropic-style stream of n chunks consists of n+1
\* events: one envelope per chunk in chunk order, the text under the nested
\* delta field, and the [DONE] sentinel once, last; no role announcement and
\* no stop envelope.
C5_AnthropicStreamShape ==
    \A r \in Reqs :
        LET q == rs[r]
            n == Len(q.chunks)
        IN  (q.pc = "finished" /\ q.endpoint = "anthropic") =>
                /\ Len(q.events) = n + 1
                /\ \A i \in 1..n :
                      /\ IsAnthropicContent(q.events[i])
                      /\ q.events[i].data.delta.delta.text = q.chunks[i]
                /\ IsDone(q.events[n + 1])
                /\ \A i \in 1..n : ~IsDone(q.events[i])
                /\ \A i \in 1..(n + 1) : ~IsOpenAIEnvelope(q.events[i])

C5_Witness ==
    \E r \in Reqs :
        /\ rs[r].pc = "finished"
        /\ rs[r].endpoint = "anthropic"
        /\ Len(rs[r].chunks) = 3
        /\ Len(rs[r].events) = 4

\* C6: in every stream of either adapter the content envelopes carry exactly
\* the chunks the engine produced, each once, unchanged and in order, and the
\* contents of a fully consumed stream concatenate to the resolved text.
C6_StreamRoundTrip ==
    \A r \in Reqs :
        LET q == rs[r]
            cs == StreamedContents(q.events)
        IN  /\ cs = q.chunks
            /\ q.pc = "finished" =>
                  Concat(cs) =
                      resolve(config, q.messages[GreatestUserIndex(q.messages)].content)

C6_Witness ==
    \E r \in Reqs :
        /\ rs[r].pc = "finished"
        /\ rs[r].endpoint = "openai"
        /\ Concat(StreamedContents(rs[r].events)) = DefaultResponse

\* C7: for the same message list, under the same configuration and on either
\* endpoint, the content of a non-streaming response equals the concatenation
\* of the chunk contents of a fully consumed stream.
C7_ModesAgree ==
    \A a \in Reqs, b \in Reqs :
        ( /\ rs[a].pc = "responded" /\ rs[a].status = 200 /\ ~rs[a].stream
          /\ rs[b].pc = "finished" /\ rs[b].stream
          /\ rs[a].messages = rs[b].messages ) =>
            BodyContent(rs[a]) = Concat(StreamedContents(rs[b].events))

C7_Witness ==
    \E a \in Reqs, b \in Reqs :
        /\ rs[a].pc = "responded" /\ rs[a].status = 200 /\ ~rs[a].stream
        /\ rs[b].pc = "finished" /\ rs[b].stream
        /\ rs[a].endpoint = "openai" /\ rs[b].endpoint = "anthropic"
        /\ rs[a].messages = rs[b].messages
        /\ BodyContent(rs[a]) = DefaultResponse

\* C8: a request whose engine call raised is answered with status 500, never
\* with a success status, and the engine is not called again.
C8_FaultIs5xx ==
    \A r \in Reqs :
        rs[r].faulted =>
            /\ rs[r].status = 500
            /\ Len(rs[r].coreCalls) = 1

\* C9: once the consumer of a stream has disconnected, nothing of the request
\* changes any more, events, delays entered and engine calls included, until
\* its objects are discarded.
C9_NothingAfterDisconnect ==
    [][\A r \in Reqs :
          (rs[r].disconnected /\ rs'[r].pc # "idle") => rs'[r] = rs[r]]_vars

C9_Witness ==
    \E r \in Reqs :
        /\ rs[r].disconnected
        /\ rs[r].pc = "closed"
        /\ Len(rs[r].events) >= 2
        /\ rs[r].yielded >= 1
        /\ rs[r].yielded < Len(rs[r].text)

\* C10: count_tokens always returns, its result is a natural number, and when
\* the tokenizer raised the result is the number of whitespace-separated
\* words of the text.
C10_CountTokensFallback ==
    /\ ct.pc = "called" => ENABLED NextCount
    /\ ct.pc = "returned" =>
          /\ ct.result \in Nat
          /\ ct.raised => ct.result = Cardinality(WordStarts(ct.text))

C10_Witness ==
    /\ ct.pc = "returned"
    /\ ct.raised
    /\ ct.model \notin KnownModels
    /\ ct.text = <<" ", "a", "\n", "a">>
    /\ ct.result = 2

\* What a request emits when it runs alone: the events of its stream, from
\* its own endpoint, model and last user content only.
RECURSIVE SumDurations(_)
\* The simulated time a request has spent suspended.
SumDurations(ds) ==
    IF ds = <<>> THEN 0 ELSE Head(ds).duration + SumDurations(Tail(ds))

EventsAlone(q) ==
    LET text == resolve(config, q.messages[GreatestUserIndex(q.messages)].content)
        body == [i \in 1..Len(text) |->
                    IF q.endpoint = "openai"
                    THEN chunk_response(q.model, <<text[i]>>)
                    ELSE stream_response(<<text[i]>>)]
    IN  IF q.endpoint = "openai"
        THEN <<first_chunk(q.model)>> \o body \o <<final_chunk(q.model), DONE>>
        ELSE body \o <<DONE>>

IsPrefix(s, t) == Len(s) <= Len(t) /\ s = SubSeq(t, 1, Len(s))

\* C11: under every interleaving of the requests in flight, no step writes
\* the shared configuration, a step changes one request only, every stream is
\* a prefix of the events its request emits alone (the whole of them once
\* fully consumed), and a non-streaming response carries its own resolved text.
C11_SharedConfigReadOnly ==
    /\ [](\A r \in Reqs :
            LET q == rs[r] IN
            /\ q.events # <<>> => IsPrefix(q.events, EventsAlone(q))
            /\ q.pc = "finished" => q.events = EventsAlone(q)
            /\ (q.pc = "responded" /\ q.status = 200) =>
                  BodyContent(q) =
                      resolve(config, q.messages[GreatestUserIndex(q.messages)].content))
    /\ [][/\ config' = config
          /\ \A r \in Reqs, q \in Reqs :
                (rs'[r] # rs[r] /\ q # r) => rs'[q] = rs[q]]_vars

C11_Witness ==
    \E a \in Reqs, b \in Reqs :
        /\ rs[a].pc = "chunk_yielded" /\ rs[b].pc = "chunk_yielded"
        /\ rs[a].text # rs[b].text
        /\ rs[a].yielded = 2 /\ rs[b].yielded = 2

DelayPcs == {"once_delay", "initial_delay", "chunk_delay"}
Terminal(r) == rs[r].pc \in {"responded", "finished", "closed", "aborted"}
InFlight(r) == rs[r].pc \in {"received", "once_delay"} \cup LivePcs

\* C12: while a request is suspended in a delay, every other request in
\* flight can take its next step, and under fair scheduling every request
\* received eventually completes.
C12_DelayBlocksNobody ==
    /\ [](\A r \in Reqs, q \in Reqs :
            (q # r /\ rs[q].pc \in DelayPcs /\ InFlight(r)) => ENABLED Step(r))
    /\ \A r \in Reqs : (rs[r].pc = "received") ~> Terminal(r)

C12_Witness ==
    \E r \in Reqs, q \in Reqs :
        /\ q # r
        /\ rs[q].pc = "initial_delay"
        /\ rs[q].delays[1].duration = 1
        /\ rs[r].pc = "chunk_delay"
        /\ rs[r].yielded = 2

\* The positions of the rules that match a prompt, and the least of a set.
MatchingRules(cfg, prompt) ==
    {i \in 1..Len(cfg.rules) : cfg.rules[i].pattern = prompt}
Least(S) == CHOOSE i \in S : \A j \in S : i <= j
LastUserContent(q) == q.messages[GreatestUserIndex(q.messages)].content

\* C13: when rules match the last user content, the text the engine resolved,
\* the content of the non-streaming response and the concatenated content of
\* the fully consumed stream are the response of the matching rule of
\* smallest position, whatever later rules match too.
C13_FirstMatchWins ==
    \A r \in Reqs :
        LET q == rs[r] IN
        (HasUser(q.messages) /\ MatchingRules(config, LastUserContent(q)) # {}) =>
            LET first == config.rules[Least(MatchingRules(config, LastUserContent(q)))]
            IN  /\ q.pc \in ({"once_delay"} \cup InEnginePcs) => q.text = first.response
                /\ (q.pc = "responded" /\ q.status = 200) =>
                      BodyContent(q) = first.response
                /\ q.pc = "finished" =>
                      Concat(StreamedContents(q.events)) = first.response

C13_Witness ==
    \E r \in Reqs :
        /\ rs[r].pc = "responded" /\ rs[r].status = 200
        /\ Cardinality(MatchingRules(config, LastUserContent(rs[r]))) = 2
        /\ BodyContent(rs[r]) = config.rules[1].response
        /\ BodyContent(rs[r]) # config.rules[3].response

\* C14: when no rule matches the last user content, the empty content
\* included, the engine resolves the default response, and unless the engine
\* itself raised the request is answered: status 200 with the default response
\* as content, or a fully consumed stream that concatenates to it.
C14_MissIsDefault ==
    \A r \in Reqs :
        LET q == rs[r] IN
        (HasUser(q.messages) /\ MatchingRules(config, LastUserContent(q)) = {}) =>
            /\ q.pc \in ({"once_delay"} \cup InEnginePcs) =>
                  q.text = config.default_response
            /\ (q.pc = "responded" /\ ~q.faulted) =>
                  /\ q.status = 200
                  /\ BodyContent(q) = config.default_response
            /\ q.pc = "finished" =>
                  Concat(StreamedContents(q.events)) = config.default_response

C14_Witness ==
    \E r \in Reqs :
        /\ rs[r].pc = "responded" /\ rs[r].status = 200
        /\ rs[r].endpoint = "anthropic"
        /\ LastUserContent(rs[r]) = ""
        /\ BodyContent(rs[r]) = DefaultResponse

\* C15: a fully consumed stream of an empty resolved text has no chunk and
\* no content envelope, has entered the initial delay and nothing else, and
\* consists of role announcement, stop envelope and [DONE] (OpenAI style) or
\* of [DONE] alone (Anthropic style).
C15_EmptyTextStream ==
    \A r \in Reqs :
        LET q == rs[r] IN
        (q.pc = "finished" /\ resolve(config, LastUserContent(q)) = <<>>) =>
            /\ q.chunks = <<>>
            /\ \A i \in 1..Len(q.events) : ~IsContent(q.events[i])
            /\ Len(q.delays) = 1
            /\ q.delays[1].kind = "initial"
            /\ q.delays[1].duration = config.initial_delay
            /\ IF q.endpoint = "openai"
               THEN /\ Len(q.events) = 3
                    /\ IsRoleEnvelope(q.events[1])
                    /\ IsStopEnvelope(q.events[2])
                    /\ IsDone(q.events[3])
               ELSE /\ Len(q.events) = 1
                    /\ IsDone(q.events[1])

C15_Witness ==
    \E r \in Reqs :
        /\ rs[r].pc = "finished"
        /\ rs[r].endpoint = "openai"
        /\ rs[r].text = <<>>
        /\ Len(rs[r].events) = 3
        /\ rs[r].delays # <<>>

\* C16: a stream never carries more chunks than its text has characters and
\* never emits anything after [DONE]; under fair scheduling every stream
\* created ends: fully consumed with [DONE] as its last event, or cut short by
\* a disconnect or a fault of the engine.
C16_StreamsEnd ==
    /\ [](\A r \in Reqs :
            LET q == rs[r] IN
            /\ Len(q.chunks) <= Len(q.text)
            /\ \A i \in 1..Len(q.events) : IsDone(q.events[i]) => i = Len(q.events)
            /\ q.pc = "finished" => IsDone(q.events[Len(q.events)]))
    /\ \A r \in Reqs :
          (rs[r].pc = "gen_created") ~> (rs[r].pc \in {"finished", "closed", "aborted"})
    /\ \A r \in Reqs :
          (rs[r].pc = "done_yielded") ~> (rs[r].pc \in {"finished", "closed"})

C16_Witness ==
    \E r \in Reqs :
        /\ rs[r].pc = "finished"
        /\ rs[r].endpoint = "anthropic"
        /\ Len(rs[r].chunks) = 3
        /\ rs[r].delays[2].duration = 1
        /\ ~rs[r].disconnected /\ ~rs[r].faulted

\* C17: every request invokes the engine at most once and in the mode of its
\* stream flag (get_response_with_lag when not streaming,
\* get_streaming_response_with_lag when streaming), also after a fault; the
\* chunks a stream has consumed are the leading characters of its one text,
\* each taken once and in order.
C17_SingleAttempt ==
    \A r \in Reqs :
        LET q == rs[r] IN
        /\ Len(q.coreCalls) <= 1
        /\ \A i \in 1..Len(q.coreCalls) :
              q.coreCalls[i].fn = IF q.stream THEN "get_streaming_response_with_lag"
                                  ELSE "get_response_with_lag"
        /\ q.faulted => Len(q.coreCalls) = 1
        /\ Len(q.chunks) = q.yielded
        /\ q.yielded <= Len(q.text)
        /\ \A i \in 1..Len(q.chunks) : q.chunks[i] = ChunkAt(q.text, i)
        /\ q.chunks # <<>> => q.stream /\ Len(q.coreCalls) = 1

C17_Witness ==
    \E r \in Reqs :
        /\ rs[r].faulted
        /\ ~rs[r].stream
        /\ rs[r].status = 500
        /\ Len(rs[r].coreCalls) = 1
        /\ rs[r].delays # <<>>

\* C18: a fully consumed stream of n chunks has suspended exactly once for the
\* initial delay, before its first chunk, and once for the inter-chunk delay
\* between each two consecutive chunks, so that its simulated latency is at
\* most initial_delay + n * inter_chunk_delay; a non-streaming request that
\* returned its content has suspended exactly once, for the initial delay.
C18_LatencyBound ==
    \A r \in Reqs :
        LET q == rs[r]
            n == Len(q.chunks)
        IN  /\ (q.stream /\ q.pc = "finished") =>
                  /\ n = Len(q.text)
                  /\ Len(q.delays) = 1 + (IF n = 0 THEN 0 ELSE n - 1)
                  /\ q.delays[1] = [kind |-> "initial", duration |-> config.initial_delay]
                  /\ \A i \in 2..Len(q.delays) :
                        q.delays[i] = [kind |-> "inter_chunk",
                                       duration |-> config.inter_chunk_delay]
                  /\ SumDurations(q.delays) <= config.initial_delay + n * config.inter_chunk_delay
            /\ (q.stream /\ q.chunks # <<>>) => q.delays # <<>>
            /\ (q.stream /\ q.pc \in LivePcs) =>
                  Len(q.delays) <= 1 + (IF n = 0 THEN 0 ELSE n)
            /\ (~q.stream /\ q.pc = "responded" /\ q.status = 200) =>
                  q.delays = << [kind |-> "initial", duration |-> config.initial_delay] >>

C18_Witness ==
    \E r \in Reqs :
        /\ rs[r].stream
        /\ rs[r].pc = "finished"
        /\ Len(rs[r].chunks) = 3
        /\ Len(rs[r].delays) = 3
        /\ config.initial_delay = 1
        /\ config.inter_chunk_delay = 1
        /\ SumDurations(rs[r].delays) = 3

\* C19: a request whose last user message has empty or whitespace-only
\* content is never answered with a client error; the engine is invoked once
\* with that very content as its prompt and resolves it like any other text;
\* unless the engine faults, the non-streaming response has status 200 and
\* carries the resolved text, and the stream is opened with status 200 and,
\* fully consumed, carries the resolved text.
C19_BlankPromptAccepted ==
    \A r \in Reqs :
        LET q == rs[r] IN
        (Arrived(r) /\ HasUser(q.messages) /\ LastUserContent(q) \in BlankContents) =>
            /\ ~(q.status \in 400..499)
            /\ \A i \in 1..Len(q.coreCalls) : q.coreCalls[i].prompt = LastUserContent(q)
            /\ q.pc \in {"once_delay", "initial_delay", "chunk_yielded", "chunk_delay",
                         "stop_yielded", "done_yielded", "finished"} =>
                  /\ Len(q.coreCalls) = 1
                  /\ q.text = resolve(config, LastUserContent(q))
            /\ (q.pc = "responded" /\ ~q.faulted) =>
                  /\ q.status = 200
                  /\ Len(q.coreCalls) = 1
                  /\ BodyContent(q) = resolve(config, LastUserContent(q))
            /\ (q.stream /\ q.pc # "received") => q.status = 200
            /\ q.pc = "finished" =>
                  Concat(StreamedContents(q.events)) = resolve(config, LastUserContent(q))

C19_Witness ==
    \E r \in Reqs :
        /\ rs[r].pc = "responded"
        /\ rs[r].status = 200
        /\ HasUser(rs[r].messages)
        /\ LastUserContent(rs[r]) = " "
        /\ rs[r].coreCalls = << [fn |-> "get_response_with_lag", prompt |-> " "] >>

\* C20: in an OpenAI-style stream the role announcement is the first event and
\* is emitted while the engine has not been invoked and no delay entered; a
\* content envelope, a stop envelope or [DONE] is emitted only by a step taken
\* after the initial delay was entered, at or after its elapsing; in an
\* Anthropic-style stream no event exists until the initial delay has elapsed.
C20_RoleBeforeDelay ==
    /\ [](\A r \in Reqs :
            LET q == rs[r] IN
            q.stream =>
                /\ (q.endpoint = "openai" /\ (q.coreCalls # <<>> \/ q.delays # <<>>)) =>
                      /\ q.events # <<>>
                      /\ IsRoleEnvelope(q.events[1])
                /\ q.pc = "role_yielded" => (q.coreCalls = <<>> /\ q.delays = <<>>)
                /\ (q.delays = <<>> \/ q.pc = "initial_delay") =>
                      /\ \A i \in 1..Len(q.events) : IsRoleEnvelope(q.events[i])
                      /\ q.endpoint = "anthropic" => q.events = <<>>
                /\ q.delays # <<>> => q.delays[1].kind = "initial")
    /\ [][\A r \in Reqs :
            (Len(rs'[r].events) > Len(rs[r].events)) =>
                LET ev == rs'[r].events[Len(rs'[r].events)] IN
                IF IsRoleEnvelope(ev)
                THEN /\ rs[r].endpoint = "openai"
                     /\ rs[r].events = <<>>
                     /\ rs'[r].coreCalls = <<>>
                     /\ rs'[r].delays = <<>>
                ELSE /\ rs[r].delays # <<>>
                     /\ rs[r].pc \in {"initial_delay", "chunk_yielded", "chunk_delay",
                                      "stop_yielded"}]_vars

C20_Witness ==
    \E r \in Reqs :
        /\ rs[r].endpoint = "openai"
        /\ rs[r].pc = "initial_delay"
        /\ Len(rs[r].events) = 1
        /\ IsRoleEnvelope(rs[r].events[1])
        /\ Len(rs[r].coreCalls) = 1
        /\ rs[r].delays = << [kind |-> "initial", duration |-> 1] >>

====
